---- MODULE Spec2Model ----
(***************************************************************************)
(* Model of src/shift_scheduler.py: the weekly shift allocator.            *)
(*                                                                         *)
(* Weekdays are written "Mon".."Sun" for the source's 月..日, and the note  *)
(* 'スタッフ不足' of a shortage row is written "shortage".  A role is       *)
(* "kitchen" when it contains 'キッチン' and "hall" when it does not.  A    *)
(* missing number (None) is NoneVal, a missing role is NoneRole.           *)
(***************************************************************************)
EXTENDS Integers, Sequences, FiniteSets, TLC

VARIABLES
    staff_csv,        \* the roster file as pd.read_csv returns it (flag cells in tenths)
    staff_df,         \* the roster, in row order (load_staff_master)
    req_df,           \* the requirement rows, in the order schedule_shifts visits them
    idx,              \* position of the loop of schedule_shifts (1-based row index)
    pc,               \* "load":   main has parsed its arguments, nothing is loaded
                      \* "select": about to call select_staff_for_shift for row idx
                      \* "commit": the call returned, lines 231-271 not yet run
                      \* "summary": the loop is over, lines 273-291 not yet run
                      \* "done":   schedule_shifts has returned to main
                      \* "error":  schedule_shifts has raised
                      \* "reported": main has printed the run report
                      \* "viewed": main has written the human view
    assigned_counts,  \* staff_id -> number of shifts assigned so far
    schedule_rows,    \* the raw schedule built so far
    selected,         \* what the last call of select_staff_for_shift returned
    counts_at_call,   \* the count map as it was handed to that call
    summary_rows,     \* the per-employee summary schedule_shifts returns
    total_labor_cost, \* the total schedule_shifts returns
    report,           \* what main prints about the labor ratio (lines 329-340)
    human_rows        \* the human view main writes (lines 356-405)

vars == <<staff_csv, staff_df, req_df, idx, pc, assigned_counts, schedule_rows, selected,
          counts_at_call, summary_rows, total_labor_cost, report, human_rows>>

NoneVal == -1

NoneRole == "None"

----------------------------------------------------------------------------
(* Bounds of the model *)

NStaff == 3          \* employees in the roster
MaxReqs == 2         \* requirement rows in one run

----------------------------------------------------------------------------
(* Module constants *)

DAY_PRIORITY(day) ==
    CASE day \in {"Fri", "Sat"} -> 3
      [] day = "Sun" -> 2
      [] OTHER -> 1

----------------------------------------------------------------------------
(* Inputs: the rosters and requirement tables the runs are drawn from *)

AllDays == {"Mon", "Fri", "Sat", "Sun"}

Emp(newbie, role, maxs, mins, days, lunch, dinner, wage) ==
    [is_newbie |-> newbie, role |-> role, max_shifts |-> maxs, min_shifts |-> mins,
     available_days_list |-> days, can_lunch |-> lunch, can_dinner |-> dinner,
     hourly_wage |-> wage]

\* Employee rows without their staff_id (the id is the row's position, so ids
\* are unique).
StaffProfiles ==
    { Emp(0, "hall", 2, 0, AllDays, 1, 1, 1200),
      Emp(0, "kitchen", 1, 1, AllDays, 1, 1, 1300),
      Emp(1, "hall", 2, 0, AllDays, 0, 1, 1000),
      Emp(1, "kitchen", 1, 0, AllDays, 1, 1, 1000),
      Emp(0, "hall", 1, 0, {"Mon", "Fri"}, 1, 0, 1100) }

WithId(p, i) ==
    [staff_id |-> i, is_newbie |-> p.is_newbie, role |-> p.role,
     max_shifts |-> p.max_shifts, min_shifts |-> p.min_shifts,
     available_days_list |-> p.available_days_list, can_lunch |-> p.can_lunch,
     can_dinner |-> p.can_dinner, hourly_wage |-> p.hourly_wage]

\* A roster file whose flag cells are written 0 or 1 (cells are in tenths).
CsvOf(roster) ==
    [i \in 1..Len(roster) |->
        [roster[i] EXCEPT !.is_newbie = @ * 10, !.can_lunch = @ * 10, !.can_dinner = @ * 10]]

\* Roster files as a user can write them: flag cells other than 0 and 1, a
\* negative wage, min_shifts above max_shifts, negative shift bounds.
CsvProfiles ==
    { Emp(0, "hall", 2, 0, AllDays, 10, 10, 1200),
      Emp(10, "kitchen", 1, 0, AllDays, 10, 10, 0 - 1000),
      Emp(0, "kitchen", 1, 2, AllDays, 10, 10, 1300),
      Emp(20, "hall", 2, 0 - 1, AllDays, 10, 10, 1000),
      Emp(10, "hall", 2, 0, AllDays, 15, 20, 1000) }

CsvRosters == { [i \in 1..NStaff |-> WithId(f[i], i)] : f \in [1..NStaff -> CsvProfiles] }

\* Series.astype(int) on a cell given in tenths: truncation toward zero
astype_int(tenths) ==
    IF tenths >= 0 THEN tenths \div 10 ELSE 0 - ((0 - tenths) \div 10)

\* lines 54-61: the three flag columns are cast to int, nothing else is
\* changed or checked
load_staff_master(csv) ==
    [i \in 1..Len(csv) |->
        [csv[i] EXCEPT !.is_newbie = astype_int(@), !.can_lunch = astype_int(@),
                       !.can_dinner = astype_int(@)]]

Rosters == { [i \in 1..NStaff |-> WithId(f[i], i)] : f \in [1..NStaff -> StaffProfiles] }

Req(day, slot, sh, eh, n, mv, mk) ==
    [day |-> day, slot |-> slot, start_hour |-> sh, end_hour |-> eh,
     required_staff |-> n, min_veterans |-> mv, min_kitchen |-> mk]

ReqRows ==
    { Req("Fri", "DINNER", 17, 23, 2, 0, 1),
      Req("Sat", "DINNER", 17, 21, 0, 1, 1),
      Req("Fri", "LUNCH", 17, 20, 1, 0, 1),
      Req("Mon", "LUNCH", 11, 15, 2, 1, 1),
      Req("Mon", "DINNER", 18, 22, 1, 0, 1),
      Req("Sun", "DINNER", 17, 22, 3, 2, 2) }

ReqTables == UNION { [1..n -> ReqRows] : n \in 0..MaxReqs }

----------------------------------------------------------------------------
(* load_shift_requirements: rows sorted by _priority, descending *)

_priority(row) ==
    <<DAY_PRIORITY(row.day), IF row.slot = "DINNER" THEN 2 ELSE 1>>

\* mutant: the rows are sorted ascending
PriorityGreater_Ascending(a, b) == a[1] < b[1] \/ (a[1] = b[1] /\ a[2] < b[2])

\* tuple comparison a > b
PriorityGreater(a, b) == a[1] > b[1] \/ (a[1] = b[1] /\ a[2] > b[2])

\* the table as read by pd.read_csv: every row carries its position in the
\* file (src), which reset_index(drop=True) later hides
TableAsRead(raw) ==
    [i \in 1..Len(raw) |->
        [src |-> i, day |-> raw[i].day, slot |-> raw[i].slot,
         start_hour |-> raw[i].start_hour, end_hour |-> raw[i].end_hour,
         required_staff |-> raw[i].required_staff,
         min_veterans |-> raw[i].min_veterans, min_kitchen |-> raw[i].min_kitchen]]

Arrangements(t) ==
    { [i \in 1..Len(t) |-> t[p[i]]] : p \in Permutations(1..Len(t)) }

\* no row is followed by a row of greater key
SortedDescending(t) ==
    \A i, j \in 1..Len(t) : i < j => ~PriorityGreater(_priority(t[j]), _priority(t[i]))

\* sort_values(by="_priority", ascending=False) with the default kind
\* ("quicksort"), which does not promise to be stable: the outcomes are the
\* arrangements of the table in descending key order, rows of equal key in
\* any order.
load_shift_requirements(raw) ==
    { t \in Arrangements(TableAsRead(raw)) : SortedDescending(t) }

----------------------------------------------------------------------------
(* select_staff_for_shift *)

\* mutant: the DINNER branch tests can_lunch
is_available_for_slot_WrongFlag(staff, day, slot) ==
    IF day \notin staff.available_days_list THEN FALSE
    ELSE IF slot = "LUNCH" /\ staff.can_lunch # 1 THEN FALSE
    ELSE IF slot = "DINNER" /\ staff.can_lunch # 1 THEN FALSE
    ELSE TRUE

is_available_for_slot(staff, day, slot) ==
    IF day \notin staff.available_days_list THEN FALSE
    ELSE IF slot = "LUNCH" /\ staff.can_lunch # 1 THEN FALSE
    ELSE IF slot = "DINNER" /\ staff.can_dinner # 1 THEN FALSE
    ELSE TRUE

\* "キッチン" in str(role)
is_kitchen(staff) == staff.role = "kitchen"

\* mutant: the Friday/Saturday evening override is left out
EffectiveMinVeterans_NoOverride(day, start_hour, min_veterans) == min_veterans

\* mutant: the override applies to the evening of any weekday
EffectiveMinVeterans_AnyDay(day, start_hour, min_veterans) ==
    IF start_hour >= 17 /\ min_veterans < 1 THEN 1 ELSE min_veterans

\* lines 121-124: Friday/Saturday evening forces min_veterans to at least 1
EffectiveMinVeterans(day, start_hour, min_veterans) ==
    IF day \in {"Fri", "Sat"} /\ start_hour >= 17 /\ min_veterans < 1
    THEN 1
    ELSE min_veterans

\* mutant: the cap test is off by one (> for >=)
AtCap_OffByOne(counts, s) == counts[s.staff_id] > s.max_shifts

\* line 132: the employee has reached the cap
AtCap(counts, s) == counts[s.staff_id] >= s.max_shifts

\* lines 126-134
Candidates(staff, counts, day, slot) ==
    SelectSeq(staff, LAMBDA s : is_available_for_slot(s, day, slot) /\ ~AtCap(counts, s))

\* mutant: the sort key is the count less the employee's min_shifts
RECURSIVE InsertByAssigned_MinFirst(_, _, _)
InsertByAssigned_MinFirst(sorted, s, counts) ==
    IF sorted = <<>> THEN <<s>>
    ELSE IF counts[s.staff_id] - s.min_shifts
               < counts[Head(sorted).staff_id] - Head(sorted).min_shifts
         THEN <<s>> \o sorted
         ELSE <<Head(sorted)>> \o InsertByAssigned_MinFirst(Tail(sorted), s, counts)

\* sorted(pool, key = assigned count): ascending and stable
RECURSIVE InsertByAssigned(_, _, _)
InsertByAssigned(sorted, s, counts) ==
    IF sorted = <<>> THEN <<s>>
    ELSE IF counts[s.staff_id] < counts[Head(sorted).staff_id]
         THEN <<s>> \o sorted
         ELSE <<Head(sorted)>> \o InsertByAssigned(Tail(sorted), s, counts)

RECURSIVE SortPrefixByAssigned(_, _, _)
SortPrefixByAssigned(pool, n, counts) ==
    IF n = 0 THEN <<>>
    ELSE InsertByAssigned(SortPrefixByAssigned(pool, n - 1, counts), pool[n], counts)

\* mutant: the pools are left in roster order
sort_by_assigned_Unsorted(pool, counts) == pool

sort_by_assigned(pool, counts) == SortPrefixByAssigned(pool, Len(pool), counts)

VeteranCount(sel) == Len(SelectSeq(sel, LAMBDA x : x.is_newbie = 0))

current_kitchen_count(sel) == Len(SelectSeq(sel, LAMBDA x : is_kitchen(x)))

\* mutant: the used_ids test is left out
AlreadyUsed_Never(sid, used_ids) == FALSE

\* the "if sid in used_ids: continue" of the three loops
AlreadyUsed(sid, used_ids) == sid \in used_ids

Take(st, s) ==
    [selected |-> Append(st.selected, s), used_ids |-> st.used_ids \cup {s.staff_id}]

\* mutant: the veteran quota pass is left out
VeteranPass_Skipped(pool, i, st, required_staff, min_veterans) == st

\* mutant: the veteran pass does not stop at the quota
RECURSIVE VeteranPass_IgnoresQuota(_, _, _, _, _)
VeteranPass_IgnoresQuota(pool, i, st, required_staff, min_veterans) ==
    IF i > Len(pool) THEN st
    ELSE IF Len(st.selected) >= required_staff THEN st
    ELSE IF pool[i].staff_id \in st.used_ids
         THEN VeteranPass_IgnoresQuota(pool, i + 1, st, required_staff, min_veterans)
         ELSE VeteranPass_IgnoresQuota(pool, i + 1,
                  [selected |-> Append(st.selected, pool[i]),
                   used_ids |-> st.used_ids \cup {pool[i].staff_id}],
                  required_staff, min_veterans)

\* 1) lines 154-165: the veteran quota
RECURSIVE VeteranPass(_, _, _, _, _)
VeteranPass(pool, i, st, required_staff, min_veterans) ==
    IF i > Len(pool) THEN st
    ELSE IF Len(st.selected) >= required_staff THEN st
    ELSE IF VeteranCount(st.selected) >= min_veterans THEN st
    ELSE IF AlreadyUsed(pool[i].staff_id, st.used_ids)
         THEN VeteranPass(pool, i + 1, st, required_staff, min_veterans)
         ELSE VeteranPass(pool, i + 1, Take(st, pool[i]), required_staff, min_veterans)

\* mutant: the kitchen quota pass is left out
KitchenPass_Skipped(pool, i, st, required_staff, min_kitchen) == st

\* mutant: a kitchen-role veteran does not count toward the kitchen quota
RECURSIVE KitchenPass_VeteransDontCount(_, _, _, _, _)
KitchenPass_VeteransDontCount(pool, i, st, required_staff, min_kitchen) ==
    IF i > Len(pool) THEN st
    ELSE IF Len(st.selected) >= required_staff THEN st
    ELSE IF Len(SelectSeq(st.selected, LAMBDA x : is_kitchen(x) /\ x.is_newbie = 1))
               >= min_kitchen THEN st
    ELSE IF pool[i].staff_id \in st.used_ids
         THEN KitchenPass_VeteransDontCount(pool, i + 1, st, required_staff, min_kitchen)
         ELSE KitchenPass_VeteransDontCount(pool, i + 1,
                  [selected |-> Append(st.selected, pool[i]),
                   used_ids |-> st.used_ids \cup {pool[i].staff_id}],
                  required_staff, min_kitchen)

\* 2) lines 167-180: the kitchen quota
RECURSIVE KitchenPass(_, _, _, _, _)
KitchenPass(pool, i, st, required_staff, min_kitchen) ==
    IF i > Len(pool) THEN st
    ELSE IF Len(st.selected) >= required_staff THEN st
    ELSE IF current_kitchen_count(st.selected) >= min_kitchen THEN st
    ELSE IF AlreadyUsed(pool[i].staff_id, st.used_ids)
         THEN KitchenPass(pool, i + 1, st, required_staff, min_kitchen)
         ELSE KitchenPass(pool, i + 1, Take(st, pool[i]), required_staff, min_kitchen)

\* mutant: the headcount test is off by one (> for >=)
RECURSIVE fill_from_pool_OffByOne(_, _, _, _)
fill_from_pool_OffByOne(pool, i, st, required_staff) ==
    IF i > Len(pool) THEN st
    ELSE IF Len(st.selected) > required_staff THEN st
    ELSE IF pool[i].staff_id \in st.used_ids
         THEN fill_from_pool_OffByOne(pool, i + 1, st, required_staff)
         ELSE fill_from_pool_OffByOne(pool, i + 1,
                  [selected |-> Append(st.selected, pool[i]),
                   used_ids |-> st.used_ids \cup {pool[i].staff_id}], required_staff)

\* 3) lines 183-192
RECURSIVE fill_from_pool(_, _, _, _)
fill_from_pool(pool, i, st, required_staff) ==
    IF i > Len(pool) THEN st
    ELSE IF Len(st.selected) >= required_staff THEN st
    ELSE IF AlreadyUsed(pool[i].staff_id, st.used_ids)
         THEN fill_from_pool(pool, i + 1, st, required_staff)
         ELSE fill_from_pool(pool, i + 1, Take(st, pool[i]), required_staff)

\* mutant: the remaining seats go to newcomers before veterans
select_staff_for_shift_NewbiesFirst(staff, counts, day, slot, start_hour, end_hour, required_staff, min_veterans, min_kitchen) ==
    LET mv == EffectiveMinVeterans(day, start_hour, min_veterans)
        candidates == Candidates(staff, counts, day, slot)
        veterans == sort_by_assigned(SelectSeq(candidates, LAMBDA s : s.is_newbie = 0), counts)
        newbies == sort_by_assigned(SelectSeq(candidates, LAMBDA s : s.is_newbie = 1), counts)
        kitchens == sort_by_assigned(SelectSeq(candidates, LAMBDA s : is_kitchen(s)), counts)
        st0 == [selected |-> <<>>, used_ids |-> {}]
        st1 == VeteranPass(veterans, 1, st0, required_staff, mv)
        st2 == KitchenPass(kitchens, 1, st1, required_staff, min_kitchen)
        st3 == fill_from_pool(newbies, 1, st2, required_staff)
        st4 == fill_from_pool(veterans, 1, st3, required_staff)
    IN  IF candidates = <<>> THEN <<>> ELSE st4.selected

select_staff_for_shift(staff, counts, day, slot, start_hour, end_hour, required_staff, min_veterans, min_kitchen) ==
    LET mv == EffectiveMinVeterans(day, start_hour, min_veterans)
        candidates == Candidates(staff, counts, day, slot)
        veterans == sort_by_assigned(SelectSeq(candidates, LAMBDA s : s.is_newbie = 0), counts)
        newbies == sort_by_assigned(SelectSeq(candidates, LAMBDA s : s.is_newbie = 1), counts)
        kitchens == sort_by_assigned(SelectSeq(candidates, LAMBDA s : is_kitchen(s)), counts)
        st0 == [selected |-> <<>>, used_ids |-> {}]
        st1 == VeteranPass(veterans, 1, st0, required_staff, mv)
        st2 == KitchenPass(kitchens, 1, st1, required_staff, min_kitchen)
        st3 == fill_from_pool(veterans, 1, st2, required_staff)
        st4 == fill_from_pool(newbies, 1, st3, required_staff)
    IN  IF candidates = <<>> THEN <<>> ELSE st4.selected

\* mutant: the allocator counts the employees it selects itself
CountsAfterSelect_Increments(counts, sel) ==
    [sid \in DOMAIN counts |->
        counts[sid] + Cardinality({k \in 1..Len(sel) : sel[k].staff_id = sid})]

\* select_staff_for_shift only reads assigned_counts: the map the caller holds
\* after the call is the map it passed in.
CountsAfterSelect(counts, sel) == counts

----------------------------------------------------------------------------
(* schedule_shifts *)

ShortageRow(req, r) ==
    [req |-> r, day |-> req.day, slot |-> req.slot, start_hour |-> req.start_hour,
     end_hour |-> req.end_hour, staff_id |-> NoneVal, role |-> NoneRole,
     is_newbie |-> NoneVal, hourly_wage |-> NoneVal,
     slot_hours |-> req.end_hour - req.start_hour, labor_cost |-> NoneVal,
     note |-> "shortage"]

\* mutant: labor_cost leaves out the hours of the slot
AssignmentRow_WageOnly(req, r, s) ==
    [req |-> r, day |-> req.day, slot |-> req.slot, start_hour |-> req.start_hour,
     end_hour |-> req.end_hour, staff_id |-> s.staff_id, role |-> s.role,
     is_newbie |-> s.is_newbie, hourly_wage |-> s.hourly_wage,
     slot_hours |-> req.end_hour - req.start_hour,
     labor_cost |-> s.hourly_wage,
     note |-> ""]

AssignmentRow(req, r, s) ==
    [req |-> r, day |-> req.day, slot |-> req.slot, start_hour |-> req.start_hour,
     end_hour |-> req.end_hour, staff_id |-> s.staff_id, role |-> s.role,
     is_newbie |-> s.is_newbie, hourly_wage |-> s.hourly_wage,
     slot_hours |-> req.end_hour - req.start_hour,
     labor_cost |-> s.hourly_wage * (req.end_hour - req.start_hour),
     note |-> ""]

\* mutant: only the last selected employee is counted
CommitCounts_LastOnly(counts, sel, n) ==
    IF n = 0 THEN counts ELSE [counts EXCEPT ![sel[n].staff_id] = @ + 1]

\* mutant: only the first selected employee is counted
CommitCounts_FirstOnly(counts, sel, n) ==
    IF n = 0 THEN counts ELSE [counts EXCEPT ![sel[1].staff_id] = @ + 1]

\* lines 251-253: assigned_counts[sid] += 1 for each selected employee in turn
RECURSIVE CommitCounts(_, _, _)
CommitCounts(counts, sel, n) ==
    IF n = 0 THEN counts
    ELSE LET c == CommitCounts(counts, sel, n - 1)
             sid == sel[n].staff_id
         IN  [c EXCEPT ![sid] = @ + 1]

\* mutant: an empty selection leaves no row
RowsFor_DropsShortage(req, r, sel) ==
    [k \in 1..Len(sel) |->
        [req |-> r, day |-> req.day, slot |-> req.slot, start_hour |-> req.start_hour,
         end_hour |-> req.end_hour, staff_id |-> sel[k].staff_id, role |-> sel[k].role,
         is_newbie |-> sel[k].is_newbie, hourly_wage |-> sel[k].hourly_wage,
         slot_hours |-> req.end_hour - req.start_hour,
         labor_cost |-> sel[k].hourly_wage * (req.end_hour - req.start_hour),
         note |-> ""]]

\* lines 231-271: the rows one requirement row adds to schedule_rows
RowsFor(req, r, sel) ==
    IF sel = <<>>
    THEN <<ShortageRow(req, r)>>
    ELSE [k \in 1..Len(sel) |-> AssignmentRow(req, r, sel[k])]

\* lines 275-288: one summary row per roster row
SummaryRows(staff, counts) ==
    [i \in 1..Len(staff) |->
        [staff_id |-> staff[i].staff_id, assigned_shifts |-> counts[staff[i].staff_id],
         min_shifts |-> staff[i].min_shifts, max_shifts |-> staff[i].max_shifts]]

\* fillna(0)
FillNa0(v) == IF v = NoneVal THEN 0 ELSE v

\* line 290: schedule_df["labor_cost"].fillna(0).sum()
RECURSIVE SumLaborCost(_, _)
SumLaborCost(rows, n) ==
    IF n = 0 THEN 0 ELSE SumLaborCost(rows, n - 1) + FillNa0(rows[n].labor_cost)

TotalLaborCost(rows) == SumLaborCost(rows, Len(rows))

----------------------------------------------------------------------------
(* main: the run report *)

\* float("inf"), which argparse accepts for --target_sales
Inf == 10000000

IsInf(x) == x = Inf

\* the values of --target_sales the runs are drawn from
TargetSales == {0 - 1000, 0, 12000, Inf}

\* --max_labor_ratio in percent; 25 is the default 0.25
MaxLaborRatios == {25}

NoRatio == [available |-> FALSE, num |-> 0, den |-> 1]

NoReport ==
    [target_sales |-> 0, max_labor_ratio |-> 0, labor_ratio |-> NoRatio, warning |-> FALSE]

\* lines 329-331; the quotient total / target_sales is kept as the pair
\* (num, den)
LaborRatio(total, target_sales) ==
    IF target_sales > 0 /\ ~IsInf(target_sales)
    THEN [available |-> TRUE, num |-> total, den |-> target_sales]
    ELSE NoRatio

\* mutant: the warning also fires when the ratio equals the maximum
RatioExceeds_OrEqual(labor_ratio, max_labor_ratio) ==
    labor_ratio.num * 100 >= max_labor_ratio * labor_ratio.den

\* line 339: labor_ratio > args.max_labor_ratio, den > 0
RatioExceeds(labor_ratio, max_labor_ratio) ==
    labor_ratio.num * 100 > max_labor_ratio * labor_ratio.den

\* lines 337-340: the warning line is printed
Warning(labor_ratio, max_labor_ratio) ==
    labor_ratio.available /\ RatioExceeds(labor_ratio, max_labor_ratio)

----------------------------------------------------------------------------
(* main: the human view, lines 356-405 *)

DAY_ORDER ==
    ("Mon" :> 0) @@ ("Tue" :> 1) @@ ("Wed" :> 2) @@ ("Thu" :> 3) @@ ("Fri" :> 4)
        @@ ("Sat" :> 5) @@ ("Sun" :> 6)

SLOT_ORDER == ("LUNCH" :> 0) @@ ("DINNER" :> 1)

\* column.map(order).fillna(99).astype(int)
MapOrder(order, key) == IF key \in DOMAIN order THEN order[key] ELSE 99

\* str(int(n)) for n >= 0, as the sequence of its character codes
RECURSIVE Digits(_)
Digits(n) == IF n < 10 THEN <<48 + n>> ELSE Digits(n \div 10) \o <<48 + (n % 10)>>

\* f"{int(start_hour)}-{int(end_hour)}"
TimeStr(start_hour, end_hour) == Digits(start_hour) \o <<45>> \o Digits(end_hour)

\* a < b on strings: by character code, a proper prefix first
RECURSIVE StrLess(_, _)
StrLess(a, b) ==
    IF b = <<>> THEN FALSE
    ELSE IF a = <<>> THEN TRUE
    ELSE IF Head(a) # Head(b) THEN Head(a) < Head(b)
    ELSE StrLess(Tail(a), Tail(b))

\* the groupby key of a raw row
GroupKey(row) == <<row.day, row.slot, row.start_hour, row.end_hour>>

GroupKeys(rows) == {GroupKey(rows[k]) : k \in 1..Len(rows)}

Group(rows, key) == SelectSeq(rows, LAMBDA row : GroupKey(row) = key)

\* mutant: one shortage row makes the group a shortage group
IsShortageGroup_Any(group) == \E k \in 1..Len(group) : group[k].staff_id = NoneVal

\* group["staff_id"].isna().all()
IsShortageGroup(group) == \A k \in 1..Len(group) : group[k].staff_id = NoneVal

\* one "name(role,tag)" entry; the staff id stands for the name
StaffEntry(row) == [staff_id |-> row.staff_id, role |-> row.role, is_newbie |-> row.is_newbie]

\* the rows of a group come in staff_id order (sort_values of lines 346-349)
RECURSIVE InsertByStaffId(_, _)
InsertByStaffId(sorted, e) ==
    IF sorted = <<>> THEN <<e>>
    ELSE IF e.staff_id < Head(sorted).staff_id THEN <<e>> \o sorted
    ELSE <<Head(sorted)>> \o InsertByStaffId(Tail(sorted), e)

\* lines 368-381: the entries of group.dropna(subset=["staff_id"])
RECURSIVE StaffList(_, _)
StaffList(group, n) ==
    IF n = 0 THEN <<>>
    ELSE IF group[n].staff_id = NoneVal THEN StaffList(group, n - 1)
    ELSE InsertByStaffId(StaffList(group, n - 1), StaffEntry(group[n]))

ShortageDetail == [shortage |-> TRUE, headcount |-> 0, kitchen |-> 0, newbie |-> 0]

\* lines 363-395: one row of the human view; start_hour and end_hour are kept
\* beside the "time" string for the statement of properties
HumanRow(key, group) ==
    LET staffs == StaffList(group, Len(group))
    IN  [day |-> key[1], slot |-> key[2], time |-> TimeStr(key[3], key[4]),
         start_hour |-> key[3], end_hour |-> key[4],
         staff_list |-> IF IsShortageGroup(group) THEN <<>> ELSE staffs,
         detail |-> IF IsShortageGroup(group) THEN ShortageDetail
                    ELSE [shortage |-> FALSE,
                          headcount |-> Len(staffs),
                          kitchen |-> Len(SelectSeq(staffs, LAMBDA e : e.role = "kitchen")),
                          newbie |-> Len(SelectSeq(staffs, LAMBDA e : e.is_newbie = 1))]]

\* lines 402-405: ascending by day_order, slot_order and the "time" string
HumanLess(a, b) ==
    LET da == MapOrder(DAY_ORDER, a.day)
        db == MapOrder(DAY_ORDER, b.day)
        sa == MapOrder(SLOT_ORDER, a.slot)
        sb == MapOrder(SLOT_ORDER, b.slot)
    IN  \/ da < db
        \/ da = db /\ sa < sb
        \/ da = db /\ sa = sb /\ StrLess(a.time, b.time)

\* the rows in ascending order; rows of different groups never tie, their
\* (day, slot, time) differ
RECURSIVE SortHuman(_)
SortHuman(rows) ==
    IF rows = {} THEN <<>>
    ELSE LET first == CHOOSE x \in rows : \A y \in rows : y = x \/ HumanLess(x, y)
         IN  <<first>> \o SortHuman(rows \ {first})

\* lines 356-405
HumanView(rows) == SortHuman({HumanRow(key, Group(rows, key)) : key \in GroupKeys(rows)})

\* Rosters and requirement tables of the runs whose view is examined: two
\* Monday lunch slots that start at 9 and at 11, a Friday evening and a slot
\* that asks for nobody.
ViewProfiles ==
    { Emp(0, "kitchen", 1, 0, AllDays, 1, 1, 1300),
      Emp(1, "hall", 1, 0, {"Fri"}, 1, 1, 1000),
      Emp(1, "kitchen", 2, 0, AllDays, 1, 1, 1000) }

ViewRosters == { [i \in 1..NStaff |-> WithId(f[i], i)] : f \in [1..NStaff -> ViewProfiles] }

ViewReqRows ==
    { Req("Mon", "LUNCH", 9, 12, 1, 0, 0),
      Req("Mon", "LUNCH", 11, 14, 1, 0, 0),
      Req("Fri", "DINNER", 17, 22, 2, 1, 1),
      Req("Mon", "DINNER", 17, 21, 0, 0, 0) }

ViewTables == UNION { [1..n -> ViewReqRows] : n \in 0..MaxReqs }

----------------------------------------------------------------------------
(* schedule_shifts and main: the run *)

Init ==
    /\ staff_df \in Rosters
    /\ staff_csv = CsvOf(staff_df)
    /\ \E raw \in ReqTables : req_df \in load_shift_requirements(raw)
    /\ idx = 1
    /\ pc = IF req_df = <<>> THEN "summary" ELSE "select"
    /\ assigned_counts = [sid \in {staff_df[i].staff_id : i \in 1..Len(staff_df)} |-> 0]
    /\ schedule_rows = <<>>
    /\ selected = <<>>
    /\ counts_at_call = assigned_counts
    /\ summary_rows = <<>>
    /\ total_labor_cost = NoneVal
    /\ report = NoReport
    /\ human_rows = <<>>

\* lines 208-229: read row idx and call select_staff_for_shift
Select ==
    /\ pc = "select"
    /\ LET req == req_df[idx]
           sel == select_staff_for_shift(staff_df, assigned_counts, req.day, req.slot,
                                         req.start_hour, req.end_hour, req.required_staff,
                                         req.min_veterans, req.min_kitchen)
       IN  /\ selected' = sel
           /\ counts_at_call' = assigned_counts
           /\ assigned_counts' = CountsAfterSelect(assigned_counts, sel)
    /\ pc' = "commit"
    /\ UNCHANGED <<human_rows, staff_csv, staff_df, req_df, idx, schedule_rows, summary_rows, total_labor_cost,
                   report>>

\* lines 231-271: record the shortage, or count and record every selected employee
Commit ==
    /\ pc = "commit"
    /\ schedule_rows' = schedule_rows \o RowsFor(req_df[idx], idx, selected)
    /\ assigned_counts' = CommitCounts(assigned_counts, selected, Len(selected))
    /\ idx' = idx + 1
    /\ pc' = IF idx + 1 > Len(req_df) THEN "summary" ELSE "select"
    /\ UNCHANGED <<human_rows, staff_csv, staff_df, req_df, selected, counts_at_call, summary_rows,
                   total_labor_cost, report>>

\* lines 273-291: build the summary and the total; an empty schedule_rows
\* gives a DataFrame without columns, and schedule_df["labor_cost"] raises
Finish ==
    /\ pc = "summary"
    /\ IF schedule_rows = <<>>
       THEN /\ pc' = "error"
            /\ UNCHANGED <<summary_rows, total_labor_cost>>
       ELSE /\ pc' = "done"
            /\ summary_rows' = SummaryRows(staff_df, assigned_counts)
            /\ total_labor_cost' = TotalLaborCost(schedule_rows)
    /\ UNCHANGED <<human_rows, staff_csv, staff_df, req_df, idx, assigned_counts, schedule_rows, selected,
                   counts_at_call, report>>

\* main, lines 329-340: the labor ratio and the warning of the run report
Report ==
    /\ pc = "done"
    /\ \E target_sales \in TargetSales, max_labor_ratio \in MaxLaborRatios :
          LET labor_ratio == LaborRatio(total_labor_cost, target_sales)
          IN  report' = [target_sales |-> target_sales,
                         max_labor_ratio |-> max_labor_ratio,
                         labor_ratio |-> labor_ratio,
                         warning |-> Warning(labor_ratio, max_labor_ratio)]
    /\ pc' = "reported"
    /\ UNCHANGED <<human_rows, staff_csv, staff_df, req_df, idx, assigned_counts, schedule_rows, selected,
                   counts_at_call, summary_rows, total_labor_cost>>

Next == Select \/ Commit \/ Finish

\* schedule_shifts from its first line to its return
Spec == Init /\ [][Next]_vars

\* The run from the command line on: main before line 321, with any roster file.
LoadInit ==
    /\ staff_csv \in CsvRosters
    /\ staff_df = <<>>
    /\ req_df = <<>>
    /\ idx = 1
    /\ pc = "load"
    /\ assigned_counts = <<>>
    /\ schedule_rows = <<>>
    /\ selected = <<>>
    /\ counts_at_call = <<>>
    /\ summary_rows = <<>>
    /\ total_labor_cost = NoneVal
    /\ report = NoReport
    /\ human_rows = <<>>

\* main, lines 321-324 and schedule_shifts, lines 204-206: both files are
\* loaded and the counters start at 0
Load ==
    /\ pc = "load"
    /\ staff_df' = load_staff_master(staff_csv)
    /\ \E raw \in ReqTables : req_df' \in load_shift_requirements(raw)
    /\ assigned_counts' = [sid \in {staff_csv[i].staff_id : i \in 1..Len(staff_csv)} |-> 0]
    /\ counts_at_call' = assigned_counts'
    /\ pc' = IF req_df' = <<>> THEN "summary" ELSE "select"
    /\ UNCHANGED <<human_rows, staff_csv, idx, schedule_rows, selected, summary_rows,
                   total_labor_cost, report>>

LoadNext == Load \/ Select \/ Commit \/ Finish \/ Report

LoadSpec == LoadInit /\ [][LoadNext]_vars

\* The run through to the human view.
ViewInit ==
    /\ staff_df \in ViewRosters
    /\ staff_csv = CsvOf(staff_df)
    /\ \E raw \in ViewTables : req_df \in load_shift_requirements(raw)
    /\ idx = 1
    /\ pc = IF req_df = <<>> THEN "summary" ELSE "select"
    /\ assigned_counts = [sid \in {staff_df[i].staff_id : i \in 1..Len(staff_df)} |-> 0]
    /\ schedule_rows = <<>>
    /\ selected = <<>>
    /\ counts_at_call = assigned_counts
    /\ summary_rows = <<>>
    /\ total_labor_cost = NoneVal
    /\ report = NoReport
    /\ human_rows = <<>>

\* main, lines 356-405: the human view is built from the raw schedule
View ==
    /\ pc = "reported"
    /\ schedule_rows # <<>>
    /\ human_rows' = HumanView(schedule_rows)
    /\ pc' = "viewed"
    /\ UNCHANGED <<staff_csv, staff_df, req_df, idx, assigned_counts, schedule_rows,
                   selected, counts_at_call, summary_rows, total_labor_cost, report>>

ViewNext == Select \/ Commit \/ Finish \/ Report \/ View

ViewSpec == ViewInit /\ [][ViewNext]_vars

----------------------------------------------------------------------------
(* Vocabulary of the properties *)

Min2(a, b) == IF a <= b THEN a ELSE b

Min3(a, b, c) == Min2(a, Min2(b, c))

StaffIdx == 1..Len(staff_df)

\* a call of select_staff_for_shift for row idx has returned and nothing of it
\* has been committed yet
Returned == pc = "commit"

\* row idx - 1 has just been committed; selected and counts_at_call are still
\* those of its call
Committed == pc \in {"select", "summary", "done", "reported"} /\ idx > 1

LastReq == req_df[idx - 1]

RowsOf(r) == SelectSeq(schedule_rows, LAMBDA row : row.req = r)

\* the three filters of a slot, stated on the roster row
Qualifies(s, req, counts) ==
    /\ req.day \in s.available_days_list
    /\ (req.slot = "LUNCH" => s.can_lunch = 1)
    /\ (req.slot = "DINNER" => s.can_dinner = 1)
    /\ counts[s.staff_id] < s.max_shifts

Qualifying(req, counts) == {i \in StaffIdx : Qualifies(staff_df[i], req, counts)}

QualifyingVeterans(req, counts) ==
    {i \in Qualifying(req, counts) : staff_df[i].is_newbie = 0}

QualifyingKitchen(req, counts) ==
    {i \in Qualifying(req, counts) : staff_df[i].role = "kitchen"}

SelectedIds == {selected[k].staff_id : k \in 1..Len(selected)}

VeteransIn(sel) == Cardinality({k \in 1..Len(sel) : sel[k].is_newbie = 0})

KitchenIn(sel) == Cardinality({k \in 1..Len(sel) : sel[k].role = "kitchen"})

FriSatEvening(req) == req.day \in {"Fri", "Sat"} /\ req.start_hour >= 17

\* the quota the veteran pass of a slot works with
QuotaOf(req) ==
    IF FriSatEvening(req) /\ req.min_veterans < 1 THEN 1 ELSE req.min_veterans

----------------------------------------------------------------------------
(* C1 - C10 *)

\* C1: at every point of a run of schedule_shifts, every employee's
\* assigned-count is at most that employee's max_shifts.
C1_CountWithinCap ==
    \A i \in StaffIdx : assigned_counts[staff_df[i].staff_id] <= staff_df[i].max_shifts

\* an employee with a positive cap has reached it and was, for that reason
\* alone, left out of the slot just committed
C1_Witness ==
    /\ Committed
    /\ \E i \in StaffIdx :
          /\ staff_df[i].max_shifts >= 1
          /\ counts_at_call[staff_df[i].staff_id] = staff_df[i].max_shifts
          /\ is_available_for_slot(staff_df[i], LastReq.day, LastReq.slot)
          /\ Len(selected) < LastReq.required_staff

\* C2 (as claimed): for a Friday/Saturday row with start hour >= 17, if a
\* veteran qualified when the row was processed, the rows emitted for the slot
\* include a veteran.
C2_VeteranOnFriSatEvening_Claimed ==
    (Committed /\ FriSatEvening(LastReq)
        /\ QualifyingVeterans(LastReq, counts_at_call) # {})
    => \E k \in 1..Len(RowsOf(idx - 1)) : RowsOf(idx - 1)[k].is_newbie = 0

\* C2 (amended): the same, for rows whose required headcount is at least 1.
C2_VeteranOnFriSatEvening ==
    (Committed /\ FriSatEvening(LastReq) /\ LastReq.required_staff >= 1
        /\ QualifyingVeterans(LastReq, counts_at_call) # {})
    => \E k \in 1..Len(RowsOf(idx - 1)) : RowsOf(idx - 1)[k].is_newbie = 0

\* a Friday/Saturday evening row configured with min_veterans = 0, one seat,
\* and a qualifying kitchen newcomer next to the qualifying veteran
C2_Witness ==
    /\ Committed /\ FriSatEvening(LastReq)
    /\ LastReq.required_staff = 1 /\ LastReq.min_veterans = 0
    /\ QualifyingVeterans(LastReq, counts_at_call) # {}
    /\ \E i \in QualifyingKitchen(LastReq, counts_at_call) : staff_df[i].is_newbie = 1
    /\ Len(selected) = 1 /\ selected[1].is_newbie = 0

\* C3: the list select_staff_for_shift returns holds no staff id twice.
C3_NoDuplicateInSlot ==
    Returned =>
        \A j, k \in 1..Len(selected) :
            selected[j].staff_id = selected[k].staff_id => j = k

\* a kitchen veteran taken by the veteran quota pass, in a selection of two or
\* more: the kitchen pass and the fill pass both met it again
C3_Witness ==
    /\ Returned /\ Len(selected) >= 2
    /\ selected[1].is_newbie = 0 /\ selected[1].role = "kitchen"
    /\ req_df[idx].min_kitchen >= 1

\* C4 (as claimed): a row with required headcount 0 adds no assignment row and
\* no shortage row to the raw schedule.
C4_ZeroHeadcountEmitsNothing ==
    (Committed /\ LastReq.required_staff = 0) => RowsOf(idx - 1) = <<>>

\* C5 (as claimed): a row whose selection is smaller than its required
\* headcount has a shortage row in the raw schedule.
C5_ShortfallIsRecorded ==
    (Committed /\ Len(selected) < LastReq.required_staff)
    => \E k \in 1..Len(RowsOf(idx - 1)) : RowsOf(idx - 1)[k].note = "shortage"

\* C6: every selected employee has the slot's weekday in its availability
\* list, has the block's capability flag at 1 and is below its cap in the
\* counts the call was given.
C6_SelectedPassFilters ==
    Returned =>
        \A k \in 1..Len(selected) :
            LET s == selected[k]
                req == req_df[idx]
            IN  /\ req.day \in s.available_days_list
                /\ (req.slot = "LUNCH" => s.can_lunch = 1)
                /\ (req.slot = "DINNER" => s.can_dinner = 1)
                /\ counts_at_call[s.staff_id] < s.max_shifts

\* a non-empty selection that leaves seats open: the roster has an employee
\* the capability flag kept out and one the cap alone kept out
C6_Witness ==
    /\ Returned /\ selected # <<>> /\ Len(selected) < req_df[idx].required_staff
    /\ \E i \in StaffIdx :
          /\ req_df[idx].day \in staff_df[i].available_days_list
          /\ req_df[idx].slot = "DINNER" /\ staff_df[i].can_dinner = 0
    /\ \E i \in StaffIdx :
          /\ is_available_for_slot(staff_df[i], req_df[idx].day, req_df[idx].slot)
          /\ staff_df[i].max_shifts >= 1
          /\ counts_at_call[staff_df[i].staff_id] = staff_df[i].max_shifts

C8_SelectLeavesCounts ==
    [][ /\ (pc = "select" => (assigned_counts' = assigned_counts /\ staff_df' = staff_df))
        /\ (assigned_counts' # assigned_counts => pc = "commit") ]_vars

\* a call has returned two employees and their counts are still those the call
\* was given
C8_Witness ==
    /\ Returned /\ Len(selected) >= 2
    /\ \A k \in 1..Len(selected) :
          assigned_counts[selected[k].staff_id] = counts_at_call[selected[k].staff_id]
    /\ \E k \in 1..Len(selected) : counts_at_call[selected[k].staff_id] >= 1

\* C9: the selection holds at least min(effective minimum-veteran quota,
\* required headcount, number of qualifying veterans) veterans.
C9_VeteranQuota ==
    Returned =>
        VeteransIn(selected) >=
            Min3(QuotaOf(req_df[idx]), req_df[idx].required_staff,
                 Cardinality(QualifyingVeterans(req_df[idx], counts_at_call)))

\* one seat, a quota of at least 1, and the veteran is taken although a
\* qualifying newcomer has a strictly lower assigned-count
C9_Witness ==
    /\ Returned /\ req_df[idx].required_staff = 1 /\ QuotaOf(req_df[idx]) >= 1
    /\ Len(selected) = 1 /\ selected[1].is_newbie = 0
    /\ \E i \in Qualifying(req_df[idx], counts_at_call) :
          /\ staff_df[i].is_newbie = 1
          /\ counts_at_call[staff_df[i].staff_id] < counts_at_call[selected[1].staff_id]

\* C10 (as claimed): when the required headcount is at least min_kitchen and
\* at least min_kitchen kitchen-role employees qualify, the selection holds at
\* least min_kitchen kitchen-role employees.
C10_KitchenQuota_Claimed ==
    (Returned /\ req_df[idx].required_staff >= req_df[idx].min_kitchen
        /\ Cardinality(QualifyingKitchen(req_df[idx], counts_at_call))
              >= req_df[idx].min_kitchen)
    => KitchenIn(selected) >= req_df[idx].min_kitchen

\* the veterans the quota pass of the slot takes
QuotaVeterans(req, counts) ==
    Min3(QuotaOf(req), req.required_staff, Cardinality(QualifyingVeterans(req, counts)))

\* C10 (amended): the same when the required headcount is at least min_kitchen
\* plus the number of veterans the veteran quota pass takes, which is
\* min(effective minimum-veteran quota, required headcount, qualifying veterans).
C10_KitchenQuota ==
    (Returned
        /\ req_df[idx].required_staff >=
              req_df[idx].min_kitchen + QuotaVeterans(req_df[idx], counts_at_call)
        /\ Cardinality(QualifyingKitchen(req_df[idx], counts_at_call))
              >= req_df[idx].min_kitchen)
    => KitchenIn(selected) >= req_df[idx].min_kitchen

\* a slot of two seats with both quotas at 1: the quota pass took a veteran
\* who is not kitchen-role, other such veterans qualify, and the second seat
\* went to a kitchen-role employee
C10_Witness ==
    /\ Returned /\ req_df[idx].required_staff = 2
    /\ req_df[idx].min_kitchen = 1 /\ QuotaOf(req_df[idx]) = 1
    /\ Len(selected) = 2 /\ selected[1].is_newbie = 0 /\ selected[1].role = "hall"
    /\ selected[2].role = "kitchen"
    /\ \E i \in QualifyingVeterans(req_df[idx], counts_at_call) :
          staff_df[i].role = "hall" /\ staff_df[i].staff_id \notin SelectedIds

----------------------------------------------------------------------------
(* C11 - C20 *)

NewbiesIn(sel) == Cardinality({k \in 1..Len(sel) : sel[k].is_newbie = 1})

\* C11 (as claimed): in a Friday/Saturday slot with start hour >= 17, a
\* selection that holds a newcomer also holds a veteran.
C11_NewbieWithVeteran ==
    (Returned /\ FriSatEvening(req_df[idx]) /\ NewbiesIn(selected) >= 1)
    => VeteransIn(selected) >= 1

\* the allocation key of a slot: weekday priority, then block priority
DayPri(day) == IF day \in {"Fri", "Sat"} THEN 3 ELSE IF day = "Sun" THEN 2 ELSE 1

BlockPri(slot) == IF slot = "DINNER" THEN 2 ELSE 1

KeyLess(a, b) ==
    \/ DayPri(a.day) < DayPri(b.day)
    \/ (DayPri(a.day) = DayPri(b.day) /\ BlockPri(a.slot) < BlockPri(b.slot))

SameKey(a, b) == DayPri(a.day) = DayPri(b.day) /\ BlockPri(a.slot) = BlockPri(b.slot)

\* C12: the rows are visited in descending (weekday priority, block priority)
\* order: no row is visited after a row of lower key, every row of the raw
\* schedule has a key at least that of every row behind it, and when a slot
\* is allocated nothing of a lower-key slot has been committed.
C12_DescendingPriorityOrder ==
    /\ \A i, j \in 1..Len(req_df) : i < j => ~KeyLess(req_df[i], req_df[j])
    /\ \A a, b \in 1..Len(schedule_rows) :
          a < b => ~KeyLess(schedule_rows[a], schedule_rows[b])
    /\ Returned =>
          \A a \in 1..Len(schedule_rows) : ~KeyLess(schedule_rows[a], req_df[idx])

\* a run over two rows that stood in ascending key order in the file: the
\* row of higher key was allocated first and assigned an employee, who is
\* therefore one shift up when the other row is allocated
C12_Witness ==
    /\ Returned /\ idx = 2
    /\ req_df[1].src = 2 /\ req_df[2].src = 1
    /\ KeyLess(req_df[2], req_df[1])
    /\ \E i \in StaffIdx : counts_at_call[staff_df[i].staff_id] = 1

\* C13 (as claimed): rows of equal key stand in req_df in the order they have
\* in the requirement file.
C13_TiesKeepInputOrder ==
    \A i, j \in 1..Len(req_df) :
        (i < j /\ SameKey(req_df[i], req_df[j])) => req_df[i].src < req_df[j].src

LoopOver == pc \in {"summary", "done", "error", "reported"}

Returned2Main == pc \in {"done", "reported"}

IsShortageRow(row) ==
    /\ row.staff_id = NoneVal /\ row.role = NoneRole /\ row.is_newbie = NoneVal
    /\ row.hourly_wage = NoneVal /\ row.labor_cost = NoneVal /\ row.note = "shortage"

\* C14: the loop ends when every requirement row has been visited once; a
\* visited row has, in the raw schedule, one row per selected employee and no
\* shortage row when its selection is non-empty, and exactly one shortage row
\* (employee fields None, note 'スタッフ不足') when it is empty; no visited row
\* is absent from the raw schedule and no row is visited twice.
C14_OneVisitPerRow ==
    /\ idx \in 1..(Len(req_df) + 1)
    /\ LoopOver <=> idx = Len(req_df) + 1
    /\ \A r \in 1..Len(req_df) : r < idx <=> RowsOf(r) # <<>>
    /\ \A a \in 1..(Len(schedule_rows) - 1) :
          schedule_rows[a].req <= schedule_rows[a + 1].req
    /\ Committed =>
          LET rows == RowsOf(idx - 1)
          IN  IF selected = <<>>
              THEN Len(rows) = 1 /\ IsShortageRow(rows[1])
              ELSE /\ Len(rows) = Len(selected)
                   /\ \A k \in 1..Len(rows) :
                         /\ rows[k].staff_id = selected[k].staff_id
                         /\ rows[k].note = ""

\* a finished run over two rows, one with an empty selection and one that
\* selected two employees
C14_Witness ==
    /\ pc = "done" /\ Len(req_df) = 2
    /\ Len(RowsOf(1)) = 2 /\ RowsOf(1)[1].note = ""
    /\ Len(RowsOf(2)) = 1 /\ IsShortageRow(RowsOf(2)[1])
    /\ req_df[2].required_staff >= 1

RECURSIVE WageTimesHours(_, _)
WageTimesHours(rows, n) ==
    IF n = 0 THEN 0
    ELSE WageTimesHours(rows, n - 1)
         + (IF rows[n].note = "shortage" THEN 0
            ELSE rows[n].hourly_wage * (rows[n].end_hour - rows[n].start_hour))

\* C15: the total schedule_shifts returns is the sum over the assignment rows
\* of hourly wage x (end hour - start hour); shortage rows add nothing.
C15_TotalLaborCost ==
    Returned2Main =>
        total_labor_cost = WageTimesHours(schedule_rows, Len(schedule_rows))

\* the 4-hour slot with headcount 2 filled by wages 1000 and 1200, next to a
\* shortage row: 8800
C15_Witness ==
    /\ pc = "done" /\ Len(req_df) = 2
    /\ \E r \in 1..2 :
          /\ req_df[r].end_hour - req_df[r].start_hour = 4
          /\ req_df[r].required_staff = 2
          /\ Len(RowsOf(r)) = 2
          /\ {RowsOf(r)[1].hourly_wage, RowsOf(r)[2].hourly_wage} = {1000, 1200}
          /\ IsShortageRow(RowsOf(3 - r)[1])
    /\ total_labor_cost = 8800

\* C17: the summary has one row per roster row, in roster order; its
\* assigned_shifts is the number of raw-schedule rows that carry the staff id
\* and min_shifts / max_shifts are the roster's.
C17_SummaryMatchesSchedule ==
    Returned2Main =>
        /\ Len(summary_rows) = Len(staff_df)
        /\ \A i \in StaffIdx :
              /\ summary_rows[i].staff_id = staff_df[i].staff_id
              /\ summary_rows[i].assigned_shifts =
                    Cardinality({k \in 1..Len(schedule_rows) :
                                    schedule_rows[k].staff_id = staff_df[i].staff_id})
              /\ summary_rows[i].min_shifts = staff_df[i].min_shifts
              /\ summary_rows[i].max_shifts = staff_df[i].max_shifts

\* a summary with an employee assigned twice, one assigned once in a slot of
\* two, and one never assigned
C17_Witness ==
    /\ pc = "done"
    /\ \E i, j, k \in StaffIdx :
          /\ summary_rows[i].assigned_shifts = 2
          /\ summary_rows[j].assigned_shifts = 1
          /\ summary_rows[k].assigned_shifts = 0
          /\ \E r \in 1..Len(req_df) :
                {staff_df[i].staff_id, staff_df[j].staff_id}
                    = {RowsOf(r)[n].staff_id : n \in 1..Len(RowsOf(r))}

\* C20 as claimed: the labor ratio is computed exactly when target sales > 0.
C20_RatioAndWarning_Claimed ==
    pc = "reported" => (report.labor_ratio.available <=> report.target_sales > 0)

\* C20: the labor ratio is total cost / target sales exactly when target
\* sales is positive and finite, and unavailable otherwise; the warning is
\* emitted exactly when the ratio is computed and strictly greater than the
\* configured maximum; reporting leaves the schedule, the summary and the
\* total as they were and the run completes.
C20_RatioAndWarning ==
    /\ [](pc = "reported" =>
            /\ report.labor_ratio.available
                  <=> (report.target_sales > 0 /\ report.target_sales # Inf)
            /\ report.labor_ratio.available =>
                  /\ report.labor_ratio.num = total_labor_cost
                  /\ report.labor_ratio.den = report.target_sales
            /\ report.warning
                  <=> /\ report.labor_ratio.available
                      /\ total_labor_cost * 100
                            > report.max_labor_ratio * report.target_sales)
    /\ [][pc = "done" =>
            /\ pc' = "reported"
            /\ schedule_rows' = schedule_rows
            /\ summary_rows' = summary_rows
            /\ total_labor_cost' = total_labor_cost]_vars

\* a completed run whose report carries the warning, with the schedule in place
C20_Witness ==
    /\ pc = "reported" /\ report.warning
    /\ report.labor_ratio.available
    /\ schedule_rows # <<>> /\ Len(summary_rows) = Len(staff_df)

Loaded == pc # "load"

InvalidRow(row) ==
    \/ row.hourly_wage < 0 \/ row.min_shifts < 0 \/ row.max_shifts < 0
    \/ row.min_shifts > row.max_shifts

InvalidRoster(csv) == \E i \in 1..Len(csv) : InvalidRow(csv[i])

IntegerFlags(csv) ==
    \A i \in 1..Len(csv) :
        /\ csv[i].is_newbie % 10 = 0
        /\ csv[i].can_lunch % 10 = 0
        /\ csv[i].can_dinner % 10 = 0

\* C18: a roster with a negative wage or shift bound, or with min_shifts
\* above max_shifts, is never scheduled: the run fails before a requirement
\* row is allocated and produces no schedule and no summary.
C18_InvalidRosterIsRejected ==
    InvalidRoster(staff_csv) =>
        /\ pc \notin {"commit", "done", "reported"}
        /\ schedule_rows = <<>>
        /\ summary_rows = <<>>

\* C19: after load_staff_master every is_newbie, can_lunch and can_dinner
\* value is 0 or 1 whatever integers the file holds, so every qualifying
\* candidate is in exactly one of the veteran pool and the newcomer pool.
C19_FlagsAreZeroOrOne ==
    (Loaded /\ IntegerFlags(staff_csv)) =>
        /\ \A i \in 1..Len(staff_df) :
              /\ staff_df[i].is_newbie \in {0, 1}
              /\ staff_df[i].can_lunch \in {0, 1}
              /\ staff_df[i].can_dinner \in {0, 1}
        /\ pc = "select" =>
              LET c == Candidates(staff_df, assigned_counts, req_df[idx].day, req_df[idx].slot)
              IN  \A k \in 1..Len(c) : c[k].is_newbie = 0 \/ c[k].is_newbie = 1

----------------------------------------------------------------------------
(* C21 - C30 *)

ThisReq == req_df[idx]

RosterPos(sid) == CHOOSE i \in StaffIdx : staff_df[i].staff_id = sid

\* C23: when the required headcount is at least the effective
\* minimum-veteran quota plus min_kitchen and at least min_kitchen
\* kitchen-role employees qualify, the selection holds at least min_kitchen
\* kitchen-role employees.
C23_KitchenSeatsAreKept ==
    (Returned
        /\ ThisReq.required_staff >= QuotaOf(ThisReq) + ThisReq.min_kitchen
        /\ Cardinality(QualifyingKitchen(ThisReq, counts_at_call)) >= ThisReq.min_kitchen)
    => Cardinality({k \in 1..Len(selected) : is_kitchen(selected[k])}) >= ThisReq.min_kitchen

\* headcount exactly quota + min_kitchen: the quota pass took a hall veteran
\* and the one qualifying kitchen-role employee, a newcomer, got the last seat
\* ahead of a veteran who was left out
C23_Witness ==
    /\ Returned /\ QuotaOf(ThisReq) >= 1 /\ ThisReq.min_kitchen >= 1
    /\ ThisReq.required_staff = QuotaOf(ThisReq) + ThisReq.min_kitchen
    /\ Cardinality(QualifyingKitchen(ThisReq, counts_at_call)) = ThisReq.min_kitchen
    /\ Len(selected) = ThisReq.required_staff
    /\ selected[1].role = "hall"
    /\ selected[Len(selected)].is_newbie = 1 /\ selected[Len(selected)].role = "kitchen"
    /\ QualifyingVeterans(ThisReq, counts_at_call)
          \ {RosterPos(sid) : sid \in SelectedIds} # {}

\* C24: if the selection contains a newcomer that is not kitchen-role, every
\* qualifying veteran is in the selection.
C24_NewcomersAfterVeterans ==
    (Returned /\ \E k \in 1..Len(selected) :
                    selected[k].is_newbie = 1 /\ ~is_kitchen(selected[k]))
    => \A i \in QualifyingVeterans(ThisReq, counts_at_call) :
          staff_df[i].staff_id \in SelectedIds

\* a hall newcomer got a seat after the veterans ran out, and another
\* qualifying newcomer got none
C24_Witness ==
    /\ Returned
    /\ \E k \in 1..Len(selected) : selected[k].is_newbie = 1 /\ selected[k].role = "hall"
    /\ QualifyingVeterans(ThisReq, counts_at_call) # {}
    /\ \E i \in Qualifying(ThisReq, counts_at_call) :
          staff_df[i].is_newbie = 1 /\ staff_df[i].staff_id \notin SelectedIds

\* C25: for two qualifying candidates X and Y of the same seniority pool, X
\* not kitchen-role, X selected and Y not: X's count at the call is at most
\* Y's, and on equal counts X precedes Y in the roster.
C25_LeastUtilizedFirst ==
    Returned =>
        \A x, y \in Qualifying(ThisReq, counts_at_call) :
            ( /\ staff_df[x].is_newbie = staff_df[y].is_newbie
              /\ ~is_kitchen(staff_df[x])
              /\ staff_df[x].staff_id \in SelectedIds
              /\ staff_df[y].staff_id \notin SelectedIds )
            => \/ counts_at_call[staff_df[x].staff_id] < counts_at_call[staff_df[y].staff_id]
               \/ /\ counts_at_call[staff_df[x].staff_id] = counts_at_call[staff_df[y].staff_id]
                  /\ x < y

\* X was taken over a Y that stands earlier in the roster because X's count
\* was lower
C25_Witness ==
    /\ Returned
    /\ \E x, y \in Qualifying(ThisReq, counts_at_call) :
          /\ staff_df[x].is_newbie = staff_df[y].is_newbie
          /\ staff_df[x].role = "hall"
          /\ staff_df[x].staff_id \in SelectedIds
          /\ staff_df[y].staff_id \notin SelectedIds
          /\ y < x
          /\ counts_at_call[staff_df[x].staff_id] < counts_at_call[staff_df[y].staff_id]

\* the veterans of the quota pass: the first entries of the selection
QuotaPrefix == SubSeq(selected, 1, QuotaVeterans(ThisReq, counts_at_call))

\* C26: when the veterans taken by the quota pass include at least
\* min_kitchen kitchen-role employees, the kitchen pass takes nobody: behind
\* the quota veterans the selection is the remaining veterans followed by
\* newcomers, and a newcomer is there only if every qualifying veteran is.
C26_KitchenVeteranCountsTwice ==
    (Returned /\ KitchenIn(QuotaPrefix) >= ThisReq.min_kitchen)
    => /\ \A j, k \in 1..Len(selected) :
             (j < k /\ selected[j].is_newbie = 1) => selected[k].is_newbie = 1
       /\ (\E k \in 1..Len(selected) : selected[k].is_newbie = 1)
             => \A i \in QualifyingVeterans(ThisReq, counts_at_call) :
                   staff_df[i].staff_id \in SelectedIds

\* the quota pass took a kitchen-role veteran, which met min_kitchen; a
\* kitchen-role newcomer qualified and was left out while a hall veteran got
\* the next seat
C26_Witness ==
    /\ Returned /\ ThisReq.min_kitchen = 1
    /\ QuotaVeterans(ThisReq, counts_at_call) = 1
    /\ Len(selected) >= 2 /\ selected[1].role = "kitchen" /\ selected[1].is_newbie = 0
    /\ selected[2].role = "hall" /\ selected[2].is_newbie = 0
    /\ \E i \in QualifyingKitchen(ThisReq, counts_at_call) :
          staff_df[i].is_newbie = 1 /\ staff_df[i].staff_id \notin SelectedIds

Max2(a, b) == IF a >= b THEN a ELSE b

\* C27: the quota select_staff_for_shift works with is max(min_veterans, 1)
\* for a Friday or Saturday row with start hour >= 17, whatever its block
\* label, and min_veterans itself for every other row.
C27_EffectiveQuota ==
    pc = "select" =>
        EffectiveMinVeterans(ThisReq.day, ThisReq.start_hour, ThisReq.min_veterans)
            = IF ThisReq.day \in {"Fri", "Sat"} /\ ThisReq.start_hour >= 17
              THEN Max2(ThisReq.min_veterans, 1)
              ELSE ThisReq.min_veterans

\* a Friday row labelled LUNCH that starts at 17 with min_veterans 0: the
\* one seat went to a veteran although a newcomer had the lower count
C27_Witness ==
    /\ Returned /\ ThisReq.day = "Fri" /\ ThisReq.slot = "LUNCH"
    /\ ThisReq.start_hour >= 17 /\ ThisReq.min_veterans = 0
    /\ Len(selected) = 1 /\ selected[1].is_newbie = 0
    /\ \E i \in Qualifying(ThisReq, counts_at_call) :
          /\ staff_df[i].is_newbie = 1
          /\ counts_at_call[staff_df[i].staff_id] < counts_at_call[selected[1].staff_id]

AssignmentRowsOfStaff(sid) ==
    Cardinality({k \in 1..Len(schedule_rows) : schedule_rows[k].staff_id = sid})

\* C28: at every point of the run an employee's assigned-count is the number
\* of assignment rows emitted so far with that staff id; a step raises the
\* count by exactly 1 when it commits a slot that selected the employee and
\* leaves it alone otherwise, so counts never decrease and a slot with an
\* empty selection changes none.
C28_CountsMatchRows ==
    /\ [](\A i \in StaffIdx :
            assigned_counts[staff_df[i].staff_id]
                = AssignmentRowsOfStaff(staff_df[i].staff_id))
    /\ [][\A i \in StaffIdx :
            assigned_counts'[staff_df[i].staff_id]
                = assigned_counts[staff_df[i].staff_id]
                  + (IF pc = "commit" /\ staff_df[i].staff_id \in SelectedIds
                     THEN 1 ELSE 0)]_vars

\* a slot that selected two employees has been committed: one of them now
\* stands at 2, and an employee it did not select still stands at 1
C28_Witness ==
    /\ Committed /\ Len(selected) = 2
    /\ \E k \in 1..2 :
          /\ assigned_counts[selected[k].staff_id] = 2
          /\ AssignmentRowsOfStaff(selected[k].staff_id) = 2
    /\ \E i \in StaffIdx :
          /\ staff_df[i].staff_id \notin SelectedIds
          /\ assigned_counts[staff_df[i].staff_id] = 1

WithoutMinShifts(rows) == [k \in 1..Len(rows) |-> [rows[k] EXCEPT !.min_shifts = 0]]

\* C29: the rows a slot adds to the raw schedule are those that the roster
\* with every min_shifts set to 0 gets, and the counts follow the selection
\* alone, so two rosters that differ only in min_shifts get the same
\* assignment rows and the same counts.
C29_MinShiftsIsNotRead ==
    (pc \in {"select", "summary"} /\ idx > 1) =>
        LET sel == select_staff_for_shift(WithoutMinShifts(staff_df), counts_at_call,
                       LastReq.day, LastReq.slot, LastReq.start_hour, LastReq.end_hour,
                       LastReq.required_staff, LastReq.min_veterans, LastReq.min_kitchen)
        IN  /\ RowsOf(idx - 1) = RowsFor(LastReq, idx - 1, sel)
            /\ \A i \in StaffIdx :
                   assigned_counts[staff_df[i].staff_id]
                       = counts_at_call[staff_df[i].staff_id]
                         + Cardinality({k \in 1..Len(sel) :
                                           sel[k].staff_id = staff_df[i].staff_id})

\* the last row has been committed with a non-empty selection and an
\* employee with min_shifts 1 who qualified for it is left without a shift
C29_Witness ==
    /\ pc = "summary" /\ idx > 1 /\ selected # <<>>
    /\ \E i \in Qualifying(LastReq, counts_at_call) :
          /\ staff_df[i].min_shifts >= 1
          /\ assigned_counts[staff_df[i].staff_id] < staff_df[i].min_shifts

\* C30: no employee has assignment rows from two requirement rows of the same
\* weekday whose hour ranges [start hour, end hour) overlap.
C30_NoOverlappingAssignments ==
    \A a, b \in 1..Len(schedule_rows) :
        ( /\ schedule_rows[a].req # schedule_rows[b].req
          /\ schedule_rows[a].staff_id # NoneVal
          /\ schedule_rows[a].staff_id = schedule_rows[b].staff_id
          /\ schedule_rows[a].day = schedule_rows[b].day )
        => ~( /\ schedule_rows[a].start_hour < schedule_rows[b].end_hour
              /\ schedule_rows[b].start_hour < schedule_rows[a].end_hour )

Viewed == pc = "viewed"

\* C21: the rows of the human view are in Monday-first weekday order, within
\* a weekday LUNCH before DINNER, and within a block by ascending numeric
\* start hour.
C21_HumanViewOrder ==
    Viewed =>
        \A j, k \in 1..Len(human_rows) :
            j < k =>
                LET a == human_rows[j]
                    b == human_rows[k]
                IN  \/ DAY_ORDER[a.day] < DAY_ORDER[b.day]
                    \/ /\ a.day = b.day
                       /\ SLOT_ORDER[a.slot] < SLOT_ORDER[b.slot]
                    \/ /\ a.day = b.day /\ a.slot = b.slot
                       /\ a.start_hour <= b.start_hour

RawGroup(key) == SelectSeq(schedule_rows, LAMBDA row : <<row.day, row.slot, row.start_hour, row.end_hour>> = key)

AssignmentRowsIn(group) == {k \in 1..Len(group) : group[k].note # "shortage"}

\* C22: the human view has exactly one row per (weekday, block, start hour,
\* end hour) of the raw schedule; the row is the shortage row with an empty
\* staff list iff every raw row of its group is a shortage row, and otherwise
\* lists one entry per assignment row of the group, with the headcount, the
\* kitchen count and the newcomer count of those rows.
C22_HumanViewGroups ==
    Viewed =>
        /\ \A k \in 1..Len(schedule_rows) :
              Cardinality({h \in 1..Len(human_rows) :
                  /\ human_rows[h].day = schedule_rows[k].day
                  /\ human_rows[h].slot = schedule_rows[k].slot
                  /\ human_rows[h].start_hour = schedule_rows[k].start_hour
                  /\ human_rows[h].end_hour = schedule_rows[k].end_hour}) = 1
        /\ \A h \in 1..Len(human_rows) :
              LET row == human_rows[h]
                  group == RawGroup(<<row.day, row.slot, row.start_hour, row.end_hour>>)
                  asg == AssignmentRowsIn(group)
              IN  /\ group # <<>>
                  /\ row.detail.shortage <=> asg = {}
                  /\ row.detail.shortage => row.staff_list = <<>>
                  /\ ~row.detail.shortage =>
                        /\ Len(row.staff_list) = Cardinality(asg)
                        /\ row.detail.headcount = Cardinality(asg)
                        /\ row.detail.kitchen
                              = Cardinality({k \in asg : group[k].role = "kitchen"})
                        /\ row.detail.newbie
                              = Cardinality({k \in asg : group[k].is_newbie = 1})

\* one requirement row written twice: the first visit assigned the one
\* employee able to work it, the second left a shortage row, and the view
\* shows the group once, with that employee
C22_Witness ==
    /\ Viewed /\ Len(req_df) = 2 /\ Len(human_rows) = 1
    /\ Len(schedule_rows) = 2
    /\ schedule_rows[1].note = "" /\ schedule_rows[2].note = "shortage"
    /\ ~human_rows[1].detail.shortage
    /\ human_rows[1].detail.headcount = 1
    /\ Len(human_rows[1].staff_list) = 1

====
